---- MODULE Spec2Model ----
(***************************************************************************)
(* Model of the pharma-chain canister                                      *)
(* (src/src/dfinity_js_backend/src/index.ts).                              *)
(*                                                                         *)
(* The canister owns seven StableBTreeMaps keyed by uuid text.  Every      *)
(* exported method runs to completion on its own (one canister message at  *)
(* a time), so each method is one action.  `result` holds the value the    *)
(* last call returned.                                                     *)
(***************************************************************************)
EXTENDS Integers, Sequences, FiniteSets, TLC

VARIABLES usersStorage, pharmaceuticalsStorage, supplyChainEventsStorage,
          rewardsStorage, qualityChecksStorage, recallAlertsStorage,
          temperatureLogsStorage, result

stores == <<usersStorage, pharmaceuticalsStorage, supplyChainEventsStorage,
            rewardsStorage, qualityChecksStorage, recallAlertsStorage,
            temperatureLogsStorage>>

vars == <<usersStorage, pharmaceuticalsStorage, supplyChainEventsStorage,
          rewardsStorage, qualityChecksStorage, recallAlertsStorage,
          temperatureLogsStorage, result>>

----------------------------------------------------------------------------
(* Bounds of the model: how many keys uuidv4 can hand out per map and in   *)
(* all.                                                                    *)
MaxUsers == 2
MaxPharmaceuticals == 1
MaxEvents == 2
MaxRewards == 2
MaxQualityChecks == 1
MaxRecalls == 1
MaxTemperatureLogs == 1
MaxIds == 5

(* The texts uuidv4 can return, per map, listed in key order (the order   *)
(* in which StableBTreeMap.values() walks them).  The canister never looks *)
(* into a key: it compares keys for equality and walks a map in key order. *)
(* The keys of a map are therefore named in the order they were issued,    *)
(* except in the ledger, whose scan order the history query exposes: a new *)
(* ledger key can fall anywhere among the older ones.                      *)
UserIdSeq == <<"u1", "u2", "u3", "u4">>
PharmaceuticalIdSeq == <<"p1", "p2", "p3">>
EventIdSeq == <<"e1", "e2", "e3", "e4">>
RewardIdSeq == <<"r1", "r2", "r3", "r4">>
QualityCheckIdSeq == <<"q1", "q2", "q3">>
RecallIdSeq == <<"a1", "a2", "a3">>
TemperatureLogIdSeq == <<"t1", "t2", "t3">>

Min(a, b) == IF a < b THEN a ELSE b

Prefix(seq, n) == {seq[i] : i \in 1..Min(n, Len(seq))}

(* The keys issued so far and the next one. *)
InOrder(seq, n, map) == Prefix(seq, Min(n, Cardinality(DOMAIN map) + 1))

UserIds == InOrder(UserIdSeq, MaxUsers, usersStorage)
PharmaceuticalIds ==
  InOrder(PharmaceuticalIdSeq, MaxPharmaceuticals, pharmaceuticalsStorage)
EventIds == Prefix(EventIdSeq, MaxEvents)
RewardIds == InOrder(RewardIdSeq, MaxRewards, rewardsStorage)
QualityCheckIds ==
  InOrder(QualityCheckIdSeq, MaxQualityChecks, qualityChecksStorage)
RecallIds == InOrder(RecallIdSeq, MaxRecalls, recallAlertsStorage)
TemperatureLogIds ==
  InOrder(TemperatureLogIdSeq, MaxTemperatureLogs, temperatureLogsStorage)

----------------------------------------------------------------------------
(* Types *)
UserRole == {"Admin", "Manufacturer", "Distributor", "Viewer"}

SupplyChainEventType ==
  {"Production", "Packaging", "Storage", "Transportation", "Delivery",
   "QualityControl", "TemperatureExcursion", "RecallInitiated"}

RewardType == {"SupplyChainEvent", "QualityReport", "RecallManagement", "Other"}

Error == {"NotFound", "InvalidPayload", "Unauthorized", "ValidationError",
          "TemperatureExcursion"}

(* Result(T, Error): Ok(value) or Err({kind: detail}).  `op` is the method *)
(* that returned it.                                                       *)
Ok(op, value) == [op |-> op, kind |-> "Ok", value |-> value]
Err(op, kind) == [op |-> op, kind |-> kind]

----------------------------------------------------------------------------
(* Inputs the callers send.  "" is the empty text.  An id text that names  *)
(* no record is the text of the pool that uuidv4 has not returned yet.     *)
UserIdInputs == UserIds \cup {""}
PharmaceuticalIdInputs == PharmaceuticalIds \cup {""}
EventTypeInputs == {"QualityControl"}
Principals == {"2vxsx-fae"}
(* ic.time(): the time of the message, an input of every update call. *)
Times == {1700}

(* The payloads of a method are the complete ones, with every id of the    *)
(* method's pools, and one payload for each text left empty.               *)
UserPayload ==
  {[username |-> "alice", role |-> "Admin"],
   [username |-> "bob", role |-> "Viewer"],
   [username |-> "", role |-> "Viewer"]}

PharmaceuticalPayload ==
  LET blank == [name |-> "Aspirin", userId |-> UserIdSeq[1],
                manufacturer |-> "Acme", batchNumber |-> "B1",
                expiryDate |-> 1800]
  IN [name : {"Aspirin"}, userId : UserIdInputs, manufacturer : {"Acme"},
      batchNumber : {"B1"}, expiryDate : {1800}]
     \cup {[blank EXCEPT !.name = ""], [blank EXCEPT !.manufacturer = ""],
           [blank EXCEPT !.batchNumber = ""]}

SupplyChainEventPayload ==
  LET blank == [pharmaceuticalId |-> PharmaceuticalIdSeq[1],
                eventType |-> "Production", location |-> "Depot",
                participantId |-> UserIdSeq[1]]
  IN [pharmaceuticalId : PharmaceuticalIds, eventType : EventTypeInputs,
      location : {"Depot"}, participantId : UserIds]
     \cup {[blank EXCEPT !.pharmaceuticalId = ""],
           [blank EXCEPT !.location = ""],
           [blank EXCEPT !.participantId = ""]}

RewardPayload ==
  [participantId : UserIdInputs, points : {0, 5}, rewardType : {"Other"}]

QualityCheckPayload ==
  LET blank == [pharmaceuticalId |-> PharmaceuticalIdSeq[1],
                temperature |-> 5, humidity |-> 40,
                inspectorId |-> UserIdSeq[1], passed |-> TRUE,
                notes |-> "ok"]
  IN [pharmaceuticalId : PharmaceuticalIds, temperature : {5},
      humidity : {40}, inspectorId : UserIds, passed : BOOLEAN,
      notes : {"ok"}]
     \cup {[blank EXCEPT !.pharmaceuticalId = ""],
           [blank EXCEPT !.inspectorId = ""]}

TemperatureLogPayload ==
  [pharmaceuticalId : PharmaceuticalIdInputs, temperature : {1, 2, 25, 26},
   location : {"Depot"}]

RecallAlertPayload ==
  LET blank == [initiatedBy |-> UserIdSeq[1],
                pharmaceuticalId |-> PharmaceuticalIdSeq[1],
                severity |-> "High", reason |-> "Contamination",
                affectedBatches |-> <<"B1">>]
  IN [initiatedBy : UserIds, pharmaceuticalId : PharmaceuticalIds,
      severity : {"High", "Extreme"}, reason : {"Contamination"},
      affectedBatches : {<<"B1">>}]
     \cup {[blank EXCEPT !.initiatedBy = ""],
           [blank EXCEPT !.pharmaceuticalId = ""],
           [blank EXCEPT !.severity = ""], [blank EXCEPT !.reason = ""]}

----------------------------------------------------------------------------
(* Variant of Insert that keeps only the inserted entry. *)
Insert_Alone(map, key, value) == [k \in {key} |-> value]

(* StableBTreeMap *)
Insert(map, key, value) ==
  [k \in DOMAIN map \cup {key} |-> IF k = key THEN value ELSE map[k]]

IsNone(map, key) == key \notin DOMAIN map

(* The number of texts uuidv4 has returned so far: nothing is ever removed *)
(* from a map, so these are the keys of the seven maps.                    *)
Issued ==
  Cardinality(DOMAIN usersStorage) + Cardinality(DOMAIN pharmaceuticalsStorage)
  + Cardinality(DOMAIN supplyChainEventsStorage)
  + Cardinality(DOMAIN rewardsStorage) + Cardinality(DOMAIN qualityChecksStorage)
  + Cardinality(DOMAIN recallAlertsStorage)
  + Cardinality(DOMAIN temperatureLogsStorage)

(* Variant of uuidv4 that may return a text it returned before. *)
uuidv4_Reused(pool, map, nth) ==
  IF Issued + nth > MaxIds THEN {} ELSE pool

(* uuidv4(), called for the nth time in a message: a text that was never   *)
(* returned before, drawn from the pool of the map it is going to key.     *)
(* The generator hands out MaxIds texts in all.                            *)
uuidv4(pool, map, nth) ==
  IF Issued + nth > MaxIds THEN {} ELSE pool \ DOMAIN map

EmptyMap == [k \in {} |-> 0]

----------------------------------------------------------------------------
Init ==
  /\ usersStorage = EmptyMap
  /\ pharmaceuticalsStorage = EmptyMap
  /\ supplyChainEventsStorage = EmptyMap
  /\ rewardsStorage = EmptyMap
  /\ qualityChecksStorage = EmptyMap
  /\ recallAlertsStorage = EmptyMap
  /\ temperatureLogsStorage = EmptyMap
  /\ result = Ok("init", <<>>)

----------------------------------------------------------------------------
(* Variant of createUser without the test for an empty username. *)
createUser_NoEmptyTest(payload) ==
  /\ UNCHANGED <<pharmaceuticalsStorage, supplyChainEventsStorage,
                 rewardsStorage, qualityChecksStorage, recallAlertsStorage,
                 temperatureLogsStorage>>
  /\ IF \E id \in DOMAIN usersStorage :
           usersStorage[id].username = payload.username
       THEN /\ result' = Err("createUser", "ValidationError")
            /\ UNCHANGED usersStorage
     ELSE \E userId \in uuidv4(UserIds, usersStorage, 1) :
            LET user == [id |-> userId, username |-> payload.username,
                         role |-> payload.role, points |-> 0]
            IN /\ usersStorage' = Insert(usersStorage, userId, user)
               /\ result' = Ok("createUser", user)

(* User Management *)
createUser(payload) ==
  /\ UNCHANGED <<pharmaceuticalsStorage, supplyChainEventsStorage,
                 rewardsStorage, qualityChecksStorage, recallAlertsStorage,
                 temperatureLogsStorage>>
  /\ IF payload.username = ""
       THEN /\ result' = Err("createUser", "InvalidPayload")
            /\ UNCHANGED usersStorage
     ELSE IF \E id \in DOMAIN usersStorage :
                usersStorage[id].username = payload.username
       THEN /\ result' = Err("createUser", "ValidationError")
            /\ UNCHANGED usersStorage
     ELSE \E userId \in uuidv4(UserIds, usersStorage, 1) :
            LET user == [id |-> userId, username |-> payload.username,
                         role |-> payload.role, points |-> 0]
            IN /\ usersStorage' = Insert(usersStorage, userId, user)
               /\ result' = Ok("createUser", user)

(* The value getUserById returns when the users map is `map`. *)
GetUserById(map, userId) ==
  IF IsNone(map, userId)
    THEN Err("getUserById", "NotFound")
    ELSE Ok("getUserById", map[userId])

getUserById(userId) ==
  /\ UNCHANGED stores
  /\ result' = GetUserById(usersStorage, userId)

----------------------------------------------------------------------------
(* Variant of creditPoints that stores the user without the increment. *)
creditPoints_NoIncrement(map, key, user, amount) == Insert(map, key, user)

(* Variant of creditPoints that assigns the amount instead of adding it. *)
creditPoints_Assign(map, key, user, amount) ==
  Insert(map, key, [user EXCEPT !.points = amount])
(* Variant of creditPoints that adds the amount twice. *)
creditPoints_Twice(map, key, user, amount) ==
  Insert(map, key, [user EXCEPT !.points = @ + amount + amount])

(* user.points += amount; usersStorage.insert(key, user) *)
creditPoints(map, key, user, amount) ==
  Insert(map, key, [user EXCEPT !.points = @ + amount])

(* The points of the reward and of the credit in createSupplyChainEvent,   *)
(* submitQualityCheck and initiateRecall.                                  *)
SupplyChainEventPoints == 10
(* Variant of QualityReportPoints that pays what a ledger event pays. *)
QualityReportPoints_AsEvent == SupplyChainEventPoints
QualityReportPoints == 15
(* Variant of RecallManagementPoints that pays what a passed check pays. *)
RecallManagementPoints_AsReport == QualityReportPoints
RecallManagementPoints == 25

----------------------------------------------------------------------------
(* Pharmaceutical Management *)
(* Variant of IsAdmin that accepts every role. *)
IsAdmin_Any(user) == user.role \in UserRole

(* "Admin" in user.role *)
IsAdmin(user) == user.role = "Admin"
(* Variant of createPharmaceutical that stores the manufacturer and the    *)
(* batch number in each other's field.                                     *)
createPharmaceutical_Swapped(payload) ==
  /\ UNCHANGED <<usersStorage, supplyChainEventsStorage, rewardsStorage,
                 qualityChecksStorage, recallAlertsStorage,
                 temperatureLogsStorage>>
  /\ IF payload.name = "" \/ payload.manufacturer = ""
          \/ payload.batchNumber = ""
       THEN /\ result' = Err("createPharmaceutical", "InvalidPayload")
            /\ UNCHANGED pharmaceuticalsStorage
     ELSE IF IsNone(usersStorage, payload.userId)
       THEN /\ result' = Err("createPharmaceutical", "NotFound")
            /\ UNCHANGED pharmaceuticalsStorage
     ELSE IF IsNone(usersStorage, payload.userId)
               \/ ~IsAdmin(usersStorage[payload.userId])
       THEN /\ result' = Err("createPharmaceutical", "Unauthorized")
            /\ UNCHANGED pharmaceuticalsStorage
     ELSE \E id \in uuidv4(PharmaceuticalIds, pharmaceuticalsStorage, 1) :
            LET pharmaceutical ==
                  [id |-> id, userId |-> payload.userId,
                   name |-> payload.name,
                   manufacturer |-> payload.batchNumber,
                   batchNumber |-> payload.manufacturer,
                   expiryDate |-> payload.expiryDate]
            IN /\ pharmaceuticalsStorage' =
                    Insert(pharmaceuticalsStorage, id, pharmaceutical)
               /\ result' = Ok("createPharmaceutical", pharmaceutical)

createPharmaceutical(payload) ==
  /\ UNCHANGED <<usersStorage, supplyChainEventsStorage, rewardsStorage,
                 qualityChecksStorage, recallAlertsStorage,
                 temperatureLogsStorage>>
  /\ IF payload.name = "" \/ payload.manufacturer = ""
          \/ payload.batchNumber = ""
       THEN /\ result' = Err("createPharmaceutical", "InvalidPayload")
            /\ UNCHANGED pharmaceuticalsStorage
     ELSE IF IsNone(usersStorage, payload.userId)
       THEN /\ result' = Err("createPharmaceutical", "NotFound")
            /\ UNCHANGED pharmaceuticalsStorage
     ELSE IF IsNone(usersStorage, payload.userId)
               \/ ~IsAdmin(usersStorage[payload.userId])
       THEN /\ result' = Err("createPharmaceutical", "Unauthorized")
            /\ UNCHANGED pharmaceuticalsStorage
     ELSE \E id \in uuidv4(PharmaceuticalIds, pharmaceuticalsStorage, 1) :
            LET pharmaceutical ==
                  [id |-> id, userId |-> payload.userId,
                   name |-> payload.name,
                   manufacturer |-> payload.manufacturer,
                   batchNumber |-> payload.batchNumber,
                   expiryDate |-> payload.expiryDate]
            IN /\ pharmaceuticalsStorage' =
                    Insert(pharmaceuticalsStorage, id, pharmaceutical)
               /\ result' = Ok("createPharmaceutical", pharmaceutical)

----------------------------------------------------------------------------
(* Supply Chain Event Management *)
(* payload.eventType is a variant object, so !payload.eventType is never   *)
(* true.                                                                   *)
createSupplyChainEvent(payload, time) ==
  /\ UNCHANGED <<pharmaceuticalsStorage, qualityChecksStorage,
                 recallAlertsStorage, temperatureLogsStorage>>
  /\ IF payload.pharmaceuticalId = "" \/ payload.location = ""
          \/ payload.participantId = ""
       THEN /\ result' = Err("createSupplyChainEvent", "InvalidPayload")
            /\ UNCHANGED <<usersStorage, supplyChainEventsStorage,
                           rewardsStorage>>
     ELSE IF IsNone(pharmaceuticalsStorage, payload.pharmaceuticalId)
       THEN /\ result' = Err("createSupplyChainEvent", "NotFound")
            /\ UNCHANGED <<usersStorage, supplyChainEventsStorage,
                           rewardsStorage>>
     ELSE IF IsNone(usersStorage, payload.participantId)
       THEN /\ result' = Err("createSupplyChainEvent", "NotFound")
            /\ UNCHANGED <<usersStorage, supplyChainEventsStorage,
                           rewardsStorage>>
     ELSE \E id \in uuidv4(EventIds, supplyChainEventsStorage, 1) :
          \E rewardId \in uuidv4(RewardIds, rewardsStorage, 2) :
            LET event == [id |-> id,
                          pharmaceuticalId |-> payload.pharmaceuticalId,
                          eventType |-> payload.eventType,
                          location |-> payload.location,
                          date |-> time,
                          participantId |-> payload.participantId]
                reward == [id |-> rewardId,
                           participantId |-> payload.participantId,
                           points |-> SupplyChainEventPoints,
                           rewardType |-> "SupplyChainEvent"]
                user == usersStorage[payload.participantId]
            IN /\ supplyChainEventsStorage' =
                    Insert(supplyChainEventsStorage, id, event)
               /\ usersStorage' =
                    creditPoints(usersStorage, payload.participantId, user,
                                 SupplyChainEventPoints)
               /\ rewardsStorage' = Insert(rewardsStorage, rewardId, reward)
               /\ result' = Ok("createSupplyChainEvent", event)
(* Variant of createReward that does not test payload.points. *)
createReward_NoPointsTest(payload) ==
  /\ UNCHANGED <<pharmaceuticalsStorage, supplyChainEventsStorage,
                 qualityChecksStorage, recallAlertsStorage,
                 temperatureLogsStorage>>
  /\ IF payload.participantId = ""
       THEN /\ result' = Err("createReward", "InvalidPayload")
            /\ UNCHANGED <<usersStorage, rewardsStorage>>
     ELSE IF IsNone(usersStorage, payload.participantId)
       THEN /\ result' = Err("createReward", "NotFound")
            /\ UNCHANGED <<usersStorage, rewardsStorage>>
     ELSE \E id \in uuidv4(RewardIds, rewardsStorage, 1) :
            LET reward == [id |-> id,
                           participantId |-> payload.participantId,
                           points |-> payload.points,
                           rewardType |-> payload.rewardType]
                user == usersStorage[payload.participantId]
            IN /\ usersStorage' =
                    creditPoints(usersStorage, payload.participantId, user,
                                 payload.points)
               /\ rewardsStorage' = Insert(rewardsStorage, id, reward)
               /\ result' = Ok("createReward", reward)

(* Create Reward with validation.  payload.rewardType is a variant object, *)
(* so !payload.rewardType is never true; !payload.points is true for 0n.   *)
createReward(payload) ==
  /\ UNCHANGED <<pharmaceuticalsStorage, supplyChainEventsStorage,
                 qualityChecksStorage, recallAlertsStorage,
                 temperatureLogsStorage>>
  /\ IF payload.participantId = "" \/ payload.points = 0
       THEN /\ result' = Err("createReward", "InvalidPayload")
            /\ UNCHANGED <<usersStorage, rewardsStorage>>
     ELSE IF IsNone(usersStorage, payload.participantId)
       THEN /\ result' = Err("createReward", "NotFound")
            /\ UNCHANGED <<usersStorage, rewardsStorage>>
     ELSE \E id \in uuidv4(RewardIds, rewardsStorage, 1) :
            LET reward == [id |-> id,
                           participantId |-> payload.participantId,
                           points |-> payload.points,
                           rewardType |-> payload.rewardType]
                user == usersStorage[payload.participantId]
            IN /\ usersStorage' =
                    creditPoints(usersStorage, payload.participantId, user,
                                 payload.points)
               /\ rewardsStorage' = Insert(rewardsStorage, id, reward)
               /\ result' = Ok("createReward", reward)

----------------------------------------------------------------------------
(* Quality Control Functions *)
submitQualityCheck(payload, time) ==
  /\ UNCHANGED <<pharmaceuticalsStorage, recallAlertsStorage,
                 temperatureLogsStorage>>
  /\ IF payload.pharmaceuticalId = "" \/ payload.inspectorId = ""
       THEN /\ result' = Err("submitQualityCheck", "InvalidPayload")
            /\ UNCHANGED <<usersStorage, supplyChainEventsStorage,
                           rewardsStorage, qualityChecksStorage>>
     ELSE IF IsNone(pharmaceuticalsStorage, payload.pharmaceuticalId)
       THEN /\ result' = Err("submitQualityCheck", "NotFound")
            /\ UNCHANGED <<usersStorage, supplyChainEventsStorage,
                           rewardsStorage, qualityChecksStorage>>
     ELSE IF IsNone(usersStorage, payload.inspectorId)
       THEN /\ result' = Err("submitQualityCheck", "NotFound")
            /\ UNCHANGED <<usersStorage, supplyChainEventsStorage,
                           rewardsStorage, qualityChecksStorage>>
     ELSE \E id \in uuidv4(QualityCheckIds, qualityChecksStorage, 1) :
          \E eventId \in uuidv4(EventIds, supplyChainEventsStorage, 2) :
            LET qualityCheck ==
                  [id |-> id,
                   pharmaceuticalId |-> payload.pharmaceuticalId,
                   temperature |-> payload.temperature,
                   humidity |-> payload.humidity,
                   inspectorId |-> payload.inspectorId,
                   passed |-> payload.passed,
                   notes |-> payload.notes,
                   timestamp |-> time]
                event == [id |-> eventId,
                          pharmaceuticalId |-> payload.pharmaceuticalId,
                          eventType |-> "QualityControl",
                          location |-> "Quality Control Lab",
                          date |-> time,
                          participantId |-> payload.inspectorId]
            IN /\ qualityChecksStorage' =
                    Insert(qualityChecksStorage, id, qualityCheck)
               /\ supplyChainEventsStorage' =
                    Insert(supplyChainEventsStorage, eventId, event)
               /\ IF payload.passed
                    THEN \E rewardId \in
                              uuidv4(RewardIds, rewardsStorage, 3) :
                           LET reward ==
                                 [id |-> rewardId,
                                  participantId |-> payload.inspectorId,
                                  points |-> QualityReportPoints,
                                  rewardType |-> "QualityReport"]
                               user == usersStorage[payload.inspectorId]
                           IN /\ usersStorage' =
                                   creditPoints(usersStorage,
                                                payload.inspectorId, user,
                                                QualityReportPoints)
                              /\ rewardsStorage' =
                                   Insert(rewardsStorage, rewardId, reward)
                    ELSE UNCHANGED <<usersStorage, rewardsStorage>>
               /\ result' = Ok("submitQualityCheck", qualityCheck)

----------------------------------------------------------------------------
(* Temperature Monitoring *)
MinTemperature == 2
MaxTemperature == 25

(* Variant of IsExcursion that excludes the lower end of the band. *)
IsExcursion_LowerExclusive(temperature) ==
  temperature > MaxTemperature \/ temperature <= MinTemperature
(* Variant of IsExcursion that counts the upper limit as an excursion. *)
IsExcursion_UpperInclusive(temperature) ==
  temperature >= MaxTemperature \/ temperature < MinTemperature

IsExcursion(temperature) ==
  temperature > MaxTemperature \/ temperature < MinTemperature

(* Variant of ExcursionError that reports the wrong error kind. *)
ExcursionError_Validation == "ValidationError"

(* The error kind logTemperature returns after it stored an excursion. *)
ExcursionError == "TemperatureExcursion"
(* Variant of logTemperature that records no event for an excursion. *)
logTemperature_NoEvent(payload, caller, time) ==
  /\ UNCHANGED <<usersStorage, pharmaceuticalsStorage, rewardsStorage,
                 qualityChecksStorage, recallAlertsStorage>>
  /\ IF IsNone(pharmaceuticalsStorage, payload.pharmaceuticalId)
       THEN /\ result' = Err("logTemperature", "NotFound")
            /\ UNCHANGED <<supplyChainEventsStorage, temperatureLogsStorage>>
     ELSE \E id \in uuidv4(TemperatureLogIds, temperatureLogsStorage, 1) :
            LET isExcursion == IsExcursion(payload.temperature)
                tempLog == [id |-> id,
                            pharmaceuticalId |-> payload.pharmaceuticalId,
                            temperature |-> payload.temperature,
                            timestamp |-> time,
                            location |-> payload.location,
                            isExcursion |-> isExcursion]
            IN /\ temperatureLogsStorage' =
                    Insert(temperatureLogsStorage, id, tempLog)
               /\ UNCHANGED supplyChainEventsStorage
               /\ result' = IF isExcursion
                              THEN Err("logTemperature", ExcursionError)
                              ELSE Ok("logTemperature", tempLog)

(* caller is ic.caller().toString(), the textual principal of the sender;   *)
(* time is ic.time().                                                      *)
logTemperature(payload, caller, time) ==
  /\ UNCHANGED <<usersStorage, pharmaceuticalsStorage, rewardsStorage,
                 qualityChecksStorage, recallAlertsStorage>>
  /\ IF IsNone(pharmaceuticalsStorage, payload.pharmaceuticalId)
       THEN /\ result' = Err("logTemperature", "NotFound")
            /\ UNCHANGED <<supplyChainEventsStorage, temperatureLogsStorage>>
     ELSE \E id \in uuidv4(TemperatureLogIds, temperatureLogsStorage, 1) :
            LET isExcursion == IsExcursion(payload.temperature)
                tempLog == [id |-> id,
                            pharmaceuticalId |-> payload.pharmaceuticalId,
                            temperature |-> payload.temperature,
                            timestamp |-> time,
                            location |-> payload.location,
                            isExcursion |-> isExcursion]
            IN /\ temperatureLogsStorage' =
                    Insert(temperatureLogsStorage, id, tempLog)
               /\ IF isExcursion
                    THEN \E eventId \in
                              uuidv4(EventIds, supplyChainEventsStorage, 2) :
                           LET event ==
                                 [id |-> eventId,
                                  pharmaceuticalId |->
                                    payload.pharmaceuticalId,
                                  eventType |-> "TemperatureExcursion",
                                  location |-> payload.location,
                                  date |-> time,
                                  participantId |-> caller]
                           IN /\ supplyChainEventsStorage' =
                                   Insert(supplyChainEventsStorage, eventId,
                                          event)
                              /\ result' =
                                   Err("logTemperature", ExcursionError)
                    ELSE /\ UNCHANGED supplyChainEventsStorage
                         /\ result' = Ok("logTemperature", tempLog)

----------------------------------------------------------------------------
(* Recall Management *)
(* Variant of SeverityLevels with one more level. *)
SeverityLevels_Extreme == {"Low", "Medium", "High", "Critical", "Extreme"}

SeverityLevels == {"Low", "Medium", "High", "Critical"}

(* payload.affectedBatches is an array, so !payload.affectedBatches is     *)
(* never true, even for the empty array.                                   *)
initiateRecall(payload, time) ==
  /\ UNCHANGED <<pharmaceuticalsStorage, qualityChecksStorage,
                 temperatureLogsStorage>>
  /\ IF payload.pharmaceuticalId = "" \/ payload.initiatedBy = ""
          \/ payload.severity = "" \/ payload.reason = ""
       THEN /\ result' = Err("initiateRecall", "InvalidPayload")
            /\ UNCHANGED <<usersStorage, supplyChainEventsStorage,
                           rewardsStorage, recallAlertsStorage>>
     ELSE IF IsNone(pharmaceuticalsStorage, payload.pharmaceuticalId)
       THEN /\ result' = Err("initiateRecall", "NotFound")
            /\ UNCHANGED <<usersStorage, supplyChainEventsStorage,
                           rewardsStorage, recallAlertsStorage>>
     ELSE IF IsNone(usersStorage, payload.initiatedBy)
       THEN /\ result' = Err("initiateRecall", "NotFound")
            /\ UNCHANGED <<usersStorage, supplyChainEventsStorage,
                           rewardsStorage, recallAlertsStorage>>
     ELSE IF payload.severity \notin SeverityLevels
       THEN /\ result' = Err("initiateRecall", "ValidationError")
            /\ UNCHANGED <<usersStorage, supplyChainEventsStorage,
                           rewardsStorage, recallAlertsStorage>>
     ELSE \E id \in uuidv4(RecallIds, recallAlertsStorage, 1) :
          \E eventId \in uuidv4(EventIds, supplyChainEventsStorage, 2) :
          \E rewardId \in uuidv4(RewardIds, rewardsStorage, 3) :
            LET recall == [id |-> id,
                           initiatedBy |-> payload.initiatedBy,
                           pharmaceuticalId |-> payload.pharmaceuticalId,
                           severity |-> payload.severity,
                           reason |-> payload.reason,
                           affectedBatches |-> payload.affectedBatches,
                           initiatedDate |-> time,
                           status |-> "Active"]
                event == [id |-> eventId,
                          pharmaceuticalId |-> payload.pharmaceuticalId,
                          eventType |-> "RecallInitiated",
                          location |-> "System",
                          date |-> time,
                          participantId |-> payload.initiatedBy]
                reward == [id |-> rewardId,
                           participantId |-> payload.initiatedBy,
                           points |-> RecallManagementPoints,
                           rewardType |-> "RecallManagement"]
            IN /\ recallAlertsStorage' =
                    Insert(recallAlertsStorage, id, recall)
               /\ supplyChainEventsStorage' =
                    Insert(supplyChainEventsStorage, eventId, event)
               /\ IF IsNone(usersStorage, payload.initiatedBy)
                    THEN /\ result' = Err("initiateRecall", "NotFound")
                         /\ UNCHANGED <<usersStorage, rewardsStorage>>
                    ELSE LET user == usersStorage[payload.initiatedBy]
                         IN /\ usersStorage' =
                                 creditPoints(usersStorage,
                                              payload.initiatedBy, user,
                                              RecallManagementPoints)
                            /\ rewardsStorage' =
                                 Insert(rewardsStorage, rewardId, reward)
                            /\ result' = Ok("initiateRecall", recall)

----------------------------------------------------------------------------
(* Query Functions *)
(* StableBTreeMap.values(): the map's values in key order. *)
RECURSIVE ValuesIn(_, _)
ValuesIn(map, idSeq) ==
  IF idSeq = <<>> THEN <<>>
  ELSE IF Head(idSeq) \in DOMAIN map
         THEN <<map[Head(idSeq)]>> \o ValuesIn(map, Tail(idSeq))
         ELSE ValuesIn(map, Tail(idSeq))

(* The value getTemperatureExcursions returns when the temperature logs   *)
(* map is `map`.                                                           *)
GetTemperatureExcursions(map, pharmaceuticalId) ==
  LET Test(log) == log.pharmaceuticalId = pharmaceuticalId /\ log.isExcursion
      excursions == SelectSeq(ValuesIn(map, TemperatureLogIdSeq), Test)
  IN IF Len(excursions) = 0
       THEN Err("getTemperatureExcursions", "NotFound")
       ELSE Ok("getTemperatureExcursions", excursions)

getTemperatureExcursions(pharmaceuticalId) ==
  /\ UNCHANGED stores
  /\ result' = GetTemperatureExcursions(temperatureLogsStorage,
                                        pharmaceuticalId)

(* JSON.stringify of a variant value such as {Admin: null}. *)
JSONStringify(variant) == <<"{", variant, ":", "null", "}">>

(* The value getUsersByRole returns when the users map is `map`. *)
GetUsersByRole(map, role) ==
  LET Test(user) == JSONStringify(user.role) = JSONStringify(role)
      users == SelectSeq(ValuesIn(map, UserIdSeq), Test)
  IN IF Len(users) = 0
       THEN Err("getUsersByRole", "NotFound")
       ELSE Ok("getUsersByRole", users)

getUsersByRole(role) ==
  /\ UNCHANGED stores
  /\ result' = GetUsersByRole(usersStorage, role)

(* The value getPharmaceuticalHistory returns when the ledger is `map`. *)
GetPharmaceuticalHistory(map, pharmaceuticalId) ==
  LET Test(event) == event.pharmaceuticalId = pharmaceuticalId
      events == SelectSeq(ValuesIn(map, EventIdSeq), Test)
  IN IF Len(events) = 0
       THEN Err("getPharmaceuticalHistory", "NotFound")
       ELSE Ok("getPharmaceuticalHistory", events)

getPharmaceuticalHistory(pharmaceuticalId) ==
  /\ UNCHANGED stores
  /\ result' = GetPharmaceuticalHistory(supplyChainEventsStorage,
                                        pharmaceuticalId)
(* Variant of GetAll that returns the scan even when it is empty. *)
GetAll_EmptyOk(op, map, idSeq) == Ok(op, ValuesIn(map, idSeq))

(* getAllPharmaceuticals, getAllSupplyChainEvents and getAllRewards: the   *)
(* value returned by the scan of `map`, whose keys are listed in idSeq.    *)
GetAll(op, map, idSeq) ==
  LET values == ValuesIn(map, idSeq)
  IN IF Len(values) = 0 THEN Err(op, "NotFound") ELSE Ok(op, values)

getAllPharmaceuticals ==
  /\ UNCHANGED stores
  /\ result' = GetAll("getAllPharmaceuticals", pharmaceuticalsStorage,
                      PharmaceuticalIdSeq)

getAllSupplyChainEvents ==
  /\ UNCHANGED stores
  /\ result' = GetAll("getAllSupplyChainEvents", supplyChainEventsStorage,
                      EventIdSeq)

getAllRewards ==
  /\ UNCHANGED stores
  /\ result' = GetAll("getAllRewards", rewardsStorage, RewardIdSeq)

(* Variant of GetActiveRecalls that selects the closed recalls. *)
GetActiveRecalls_Closed(map) ==
  LET Test(recall) == recall.status = "Closed"
      recalls == SelectSeq(ValuesIn(map, RecallIdSeq), Test)
  IN IF Len(recalls) = 0
       THEN Err("getActiveRecalls", "NotFound")
       ELSE Ok("getActiveRecalls", recalls)

(* The value getActiveRecalls returns when the recall alerts map is `map`. *)
GetActiveRecalls(map) ==
  LET Test(recall) == recall.status = "Active"
      recalls == SelectSeq(ValuesIn(map, RecallIdSeq), Test)
  IN IF Len(recalls) = 0
       THEN Err("getActiveRecalls", "NotFound")
       ELSE Ok("getActiveRecalls", recalls)

getActiveRecalls ==
  /\ UNCHANGED stores
  /\ result' = GetActiveRecalls(recallAlertsStorage)

----------------------------------------------------------------------------
(* Analytics Functions *)
RECURSIVE TotalTemperature(_)
(* checks.reduce((sum, check) => sum + check.temperature, 0n) *)
TotalTemperature(checks) ==
  IF checks = <<>> THEN 0
  ELSE Head(checks).temperature + TotalTemperature(Tail(checks))

RECURSIVE TotalHumidity(_)
(* checks.reduce((sum, check) => sum + check.humidity, 0n) *)
TotalHumidity(checks) ==
  IF checks = <<>> THEN 0
  ELSE Head(checks).humidity + TotalHumidity(Tail(checks))

(* Variant of GetQualityMetrics that divides before it multiplies. *)
GetQualityMetrics_DivideFirst(map, pharmaceuticalId) ==
  LET Test(check) == check.pharmaceuticalId = pharmaceuticalId
      Passed(check) == check.passed
      checks == SelectSeq(ValuesIn(map, QualityCheckIdSeq), Test)
      totalChecks == Len(checks)
      passedChecks == Len(SelectSeq(checks, Passed))
  IN IF Len(checks) = 0
       THEN Err("getQualityMetrics", "NotFound")
       ELSE Ok("getQualityMetrics",
               [totalChecks |-> totalChecks,
                passRate |-> (passedChecks \div totalChecks) * 100,
                averageTemperature |->
                  TotalTemperature(checks) \div totalChecks,
                averageHumidity |-> TotalHumidity(checks) \div totalChecks])

(* The value getQualityMetrics returns when the quality checks map is      *)
(* `map`.                                                                  *)
GetQualityMetrics(map, pharmaceuticalId) ==
  LET Test(check) == check.pharmaceuticalId = pharmaceuticalId
      Passed(check) == check.passed
      checks == SelectSeq(ValuesIn(map, QualityCheckIdSeq), Test)
      totalChecks == Len(checks)
      passedChecks == Len(SelectSeq(checks, Passed))
  IN IF Len(checks) = 0
       THEN Err("getQualityMetrics", "NotFound")
       ELSE Ok("getQualityMetrics",
               [totalChecks |-> totalChecks,
                passRate |-> (passedChecks * 100) \div totalChecks,
                averageTemperature |->
                  TotalTemperature(checks) \div totalChecks,
                averageHumidity |-> TotalHumidity(checks) \div totalChecks])

getQualityMetrics(pharmaceuticalId) ==
  /\ UNCHANGED stores
  /\ result' = GetQualityMetrics(qualityChecksStorage, pharmaceuticalId)

----------------------------------------------------------------------------
Next ==
  \/ \E payload \in UserPayload : createUser(payload)
  \/ \E userId \in UserIdInputs : getUserById(userId)
  \/ \E payload \in PharmaceuticalPayload : createPharmaceutical(payload)
  \/ \E payload \in SupplyChainEventPayload, time \in Times :
       createSupplyChainEvent(payload, time)
  \/ \E payload \in RewardPayload : createReward(payload)
  \/ \E payload \in QualityCheckPayload, time \in Times :
       submitQualityCheck(payload, time)
  \/ \E payload \in TemperatureLogPayload, caller \in Principals,
        time \in Times :
       logTemperature(payload, caller, time)
  \/ \E payload \in RecallAlertPayload, time \in Times :
       initiateRecall(payload, time)
  \/ \E pharmaceuticalId \in PharmaceuticalIdInputs :
       getTemperatureExcursions(pharmaceuticalId)
  \/ \E role \in UserRole : getUsersByRole(role)
  \/ \E pharmaceuticalId \in PharmaceuticalIdInputs :
       getPharmaceuticalHistory(pharmaceuticalId)
  \/ getAllPharmaceuticals
  \/ getAllSupplyChainEvents
  \/ getAllRewards
  \/ getActiveRecalls
  \/ \E pharmaceuticalId \in PharmaceuticalIdInputs :
       getQualityMetrics(pharmaceuticalId)

Spec == Init /\ [][Next]_vars

----------------------------------------------------------------------------
(* getQualityMetrics on its own: the canister after one Admin registered   *)
(* two pharmaceuticals and submitted up to MaxMetricChecks quality checks  *)
(* with readings from MetricCheckInputs, then queried.                     *)
MaxMetricChecks == 2

MetricPharmaceuticalIds == {PharmaceuticalIdSeq[1], PharmaceuticalIdSeq[2]}

MetricCheckInputs ==
  [pharmaceuticalId : MetricPharmaceuticalIds, temperature : {5, 7},
   humidity : {40, 45}, passed : BOOLEAN]

MetricCheckLists ==
  UNION {[1..n -> MetricCheckInputs] : n \in 0..MaxMetricChecks}

(* The position of id in idSeq. *)
IndexIn(idSeq, id) == CHOOSE i \in 1..Len(idSeq) : idSeq[i] = id

(* The state submitQualityCheck leaves after the checks `checks` were      *)
(* submitted in turn by the Admin who registered both pharmaceuticals.     *)
MetricsInit ==
  \E checks \in MetricCheckLists :
    LET inspectorId == UserIdSeq[1]
        n == Len(checks)
        passed == {i \in 1..n : checks[i].passed}
    IN /\ usersStorage =
            [u \in {inspectorId} |->
               [id |-> u, username |-> "alice", role |-> "Admin",
                points |-> QualityReportPoints * Cardinality(passed)]]
       /\ pharmaceuticalsStorage =
            [p \in MetricPharmaceuticalIds |->
               [id |-> p, name |-> "Aspirin", userId |-> inspectorId,
                manufacturer |-> "Acme", batchNumber |-> "B1",
                expiryDate |-> 1800]]
       /\ qualityChecksStorage =
            [q \in {QualityCheckIdSeq[i] : i \in 1..n} |->
               LET check == checks[IndexIn(QualityCheckIdSeq, q)]
               IN [id |-> q,
                   pharmaceuticalId |-> check.pharmaceuticalId,
                   temperature |-> check.temperature,
                   humidity |-> check.humidity,
                   inspectorId |-> inspectorId,
                   passed |-> check.passed,
                   notes |-> "ok",
                   timestamp |-> 1700]]
       /\ supplyChainEventsStorage =
            [e \in {EventIdSeq[i] : i \in 1..n} |->
               [id |-> e,
                pharmaceuticalId |->
                  checks[IndexIn(EventIdSeq, e)].pharmaceuticalId,
                eventType |-> "QualityControl",
                location |-> "Quality Control Lab",
                date |-> 1700,
                participantId |-> inspectorId]]
       /\ rewardsStorage =
            [r \in {RewardIdSeq[i] : i \in passed} |->
               [id |-> r, participantId |-> inspectorId,
                points |-> QualityReportPoints,
                rewardType |-> "QualityReport"]]
       /\ recallAlertsStorage = EmptyMap
       /\ temperatureLogsStorage = EmptyMap
       /\ result = Ok("init", <<>>)

MetricsNext ==
  \E pharmaceuticalId \in MetricPharmaceuticalIds \cup {""} :
    getQualityMetrics(pharmaceuticalId)

MetricsSpec == MetricsInit /\ [][MetricsNext]_vars

----------------------------------------------------------------------------
(* getPharmaceuticalHistory on its own: the canister after one Admin       *)
(* registered two pharmaceuticals and recorded up to MaxHistoryEvents      *)
(* events, one after the other, then queried.                              *)
MaxHistoryEvents == 2

HistoryEventInputs ==
  [pharmaceuticalId : MetricPharmaceuticalIds, location : {"Depot", "Port"}]

(* The keys uuidv4 may have given to n events, by order of insertion. *)
HistoryKeys(n) ==
  {keys \in [1..n -> Prefix(EventIdSeq, MaxHistoryEvents + 1)] :
     \A i, j \in 1..n : keys[i] = keys[j] => i = j}

(* The state createSupplyChainEvent leaves after the events `events` were  *)
(* recorded in turn, the i-th of them at time 1700 + i under the key       *)
(* keys[i], by the Admin who registered both pharmaceuticals.              *)
HistoryInit ==
  \E n \in 0..MaxHistoryEvents :
  \E events \in [1..n -> HistoryEventInputs] :
  \E keys \in HistoryKeys(n) :
    LET participantId == UserIdSeq[1]
        nth(e) == CHOOSE i \in 1..n : keys[i] = e
    IN /\ usersStorage =
            [u \in {participantId} |->
               [id |-> u, username |-> "alice", role |-> "Admin",
                points |-> SupplyChainEventPoints * n]]
       /\ pharmaceuticalsStorage =
            [p \in MetricPharmaceuticalIds |->
               [id |-> p, name |-> "Aspirin", userId |-> participantId,
                manufacturer |-> "Acme", batchNumber |-> "B1",
                expiryDate |-> 1800]]
       /\ supplyChainEventsStorage =
            [e \in {keys[i] : i \in 1..n} |->
               [id |-> e,
                pharmaceuticalId |-> events[nth(e)].pharmaceuticalId,
                eventType |-> "Production",
                location |-> events[nth(e)].location,
                date |-> 1700 + nth(e),
                participantId |-> participantId]]
       /\ rewardsStorage =
            [r \in {RewardIdSeq[i] : i \in 1..n} |->
               [id |-> r, participantId |-> participantId,
                points |-> SupplyChainEventPoints,
                rewardType |-> "SupplyChainEvent"]]
       /\ qualityChecksStorage = EmptyMap
       /\ recallAlertsStorage = EmptyMap
       /\ temperatureLogsStorage = EmptyMap
       /\ result = Ok("init", <<>>)

HistoryNext ==
  \E pharmaceuticalId \in MetricPharmaceuticalIds \cup {""} :
    getPharmaceuticalHistory(pharmaceuticalId)

HistorySpec == HistoryInit /\ [][HistoryNext]_vars

----------------------------------------------------------------------------
(* Properties *)
RECURSIVE SumPoints(_, _)
SumPoints(map, keys) ==
  IF keys = {} THEN 0
  ELSE LET k == CHOOSE x \in keys : TRUE
       IN map[k].points + SumPoints(map, keys \ {k})

RewardsOf(map, userId) == {r \in DOMAIN map : map[r].participantId = userId}

MutatingOps ==
  {"createUser", "createPharmaceutical", "createSupplyChainEvent",
   "createReward", "submitQualityCheck", "logTemperature", "initiateRecall"}

(* C1: in every reachable state every user's points equal the sum of the   *)
(* points of the rewards whose participantId is that user.                 *)
C1_PointsEqualRewardSum ==
  \A u \in DOMAIN usersStorage :
    usersStorage[u].points =
      SumPoints(rewardsStorage, RewardsOf(rewardsStorage, u))

(* A user who received two rewards of different sizes. *)
C1_Witness ==
  \E u \in DOMAIN usersStorage :
    /\ Cardinality(RewardsOf(rewardsStorage, u)) = 2
    /\ usersStorage[u].points = 15

(* C2: in every reachable state every event of the ledger names an         *)
(* existing pharmaceutical and an existing user as its participant.        *)
C2_EventsReferenceExisting ==
  \A e \in DOMAIN supplyChainEventsStorage :
    /\ supplyChainEventsStorage[e].pharmaceuticalId
         \in DOMAIN pharmaceuticalsStorage
    /\ supplyChainEventsStorage[e].participantId \in DOMAIN usersStorage

(* C3: a step of a mutating operation that returns an error other than     *)
(* TemperatureExcursion leaves all seven maps as they were.                *)
C3_ErrorsWriteNothing ==
  [][(/\ result'.op \in MutatingOps
      /\ result'.kind \in Error \ {"TemperatureExcursion"})
     => UNCHANGED stores]_vars

(* initiateRecall has refused a recall of an existing pharmaceutical by an *)
(* existing user.                                                          *)
C3_Witness ==
  /\ result = Err("initiateRecall", "ValidationError")
  /\ DOMAIN supplyChainEventsStorage # {}
  /\ DOMAIN recallAlertsStorage = {}

(* The keys a step added to a map, and: the step added exactly one key and *)
(* left every older entry as it was.                                       *)
NewKeys(old, new) == DOMAIN new \ DOMAIN old

AddsOne(old, new) ==
  /\ DOMAIN old \subseteq DOMAIN new
  /\ Cardinality(NewKeys(old, new)) = 1
  /\ \A k \in DOMAIN old : new[k] = old[k]

TheNew(old, new) == new[CHOOSE k \in NewKeys(old, new) : TRUE]

SamePointsExcept(old, new, userId) ==
  /\ DOMAIN new = DOMAIN old
  /\ \A u \in DOMAIN old \ {userId} : new[u] = old[u]

(* C4: a successful createSupplyChainEvent for participant p adds exactly  *)
(* one event, adds 10 to p's points, adds exactly one reward (p, 10,       *)
(* SupplyChainEvent), changes no other user, and getUserById(p) then       *)
(* returns the increased balance.                                          *)
C4_RecordEventCredits ==
  [][(result'.op = "createSupplyChainEvent" /\ result'.kind = "Ok") =>
       LET event == result'.value
           p == event.participantId
       IN /\ AddsOne(supplyChainEventsStorage, supplyChainEventsStorage')
          /\ TheNew(supplyChainEventsStorage, supplyChainEventsStorage')
               = event
          /\ SamePointsExcept(usersStorage, usersStorage', p)
          /\ usersStorage'[p] =
               [usersStorage[p] EXCEPT !.points = usersStorage[p].points + 10]
          /\ AddsOne(rewardsStorage, rewardsStorage')
          /\ LET reward == TheNew(rewardsStorage, rewardsStorage')
             IN /\ reward.participantId = p
                /\ reward.points = 10
                /\ reward.rewardType = "SupplyChainEvent"
          /\ GetUserById(usersStorage', p).kind = "Ok"
          /\ GetUserById(usersStorage', p).value.points =
               usersStorage[p].points + 10]_vars

(* An event was recorded for a participant who already had points. *)
C4_Witness ==
  /\ result.op = "createSupplyChainEvent"
  /\ result.kind = "Ok"
  /\ usersStorage[result.value.participantId].points > 10

C6_LogTemperatureEffects ==
  [][result'.op = "logTemperature" =>
       \A payload \in TemperatureLogPayload, caller \in Principals,
          time \in Times :
         (/\ payload.pharmaceuticalId \in DOMAIN pharmaceuticalsStorage
          /\ logTemperature(payload, caller, time))
         =>
         /\ AddsOne(temperatureLogsStorage, temperatureLogsStorage')
         /\ usersStorage' = usersStorage
         /\ rewardsStorage' = rewardsStorage
         /\ LET log == TheNew(temperatureLogsStorage, temperatureLogsStorage')
                after == GetTemperatureExcursions(temperatureLogsStorage',
                                                  payload.pharmaceuticalId)
            IN /\ log.pharmaceuticalId = payload.pharmaceuticalId
               /\ log.temperature = payload.temperature
               /\ IF payload.temperature < 2 \/ payload.temperature > 25
                    THEN /\ log.isExcursion
                         /\ AddsOne(supplyChainEventsStorage,
                                    supplyChainEventsStorage')
                         /\ TheNew(supplyChainEventsStorage,
                                   supplyChainEventsStorage').eventType
                              = "TemperatureExcursion"
                         /\ TheNew(supplyChainEventsStorage,
                                   supplyChainEventsStorage').pharmaceuticalId
                              = payload.pharmaceuticalId
                         /\ result'.kind = "TemperatureExcursion"
                         /\ after.kind = "Ok"
                         /\ \E i \in 1..Len(after.value) :
                              after.value[i] = log
                    ELSE /\ ~log.isExcursion
                         /\ result' = Ok("logTemperature", log)
                         /\ supplyChainEventsStorage'
                              = supplyChainEventsStorage]_vars

(* An excursion was reported as an error and its log is stored. *)
C6_Witness ==
  /\ result = Err("logTemperature", "TemperatureExcursion")
  /\ \E t \in DOMAIN temperatureLogsStorage :
       /\ temperatureLogsStorage[t].isExcursion
       /\ temperatureLogsStorage[t].temperature = 26
  /\ \E e \in DOMAIN supplyChainEventsStorage :
       supplyChainEventsStorage[e].eventType = "TemperatureExcursion"

(* C7: initiateRecall with every field present, an existing pharmaceutical *)
(* and an existing initiator, but a severity outside {Low, Medium, High,   *)
(* Critical}, returns ValidationError and writes nothing.                  *)
C7_BadSeverityRejected ==
  [][result'.op = "initiateRecall" =>
       \A payload \in RecallAlertPayload, time \in Times :
         (/\ payload.pharmaceuticalId \in DOMAIN pharmaceuticalsStorage
          /\ payload.initiatedBy \in DOMAIN usersStorage
          /\ payload.severity # ""
          /\ payload.reason # ""
          /\ payload.severity \notin {"Low", "Medium", "High", "Critical"}
          /\ initiateRecall(payload, time))
         =>
         /\ result'.kind = "ValidationError"
         /\ recallAlertsStorage' = recallAlertsStorage
         /\ supplyChainEventsStorage' = supplyChainEventsStorage
         /\ rewardsStorage' = rewardsStorage
         /\ usersStorage' = usersStorage]_vars

(* A recall with a bad severity was refused while two users and a          *)
(* pharmaceutical exist.                                                   *)
C7_Witness ==
  /\ result = Err("initiateRecall", "ValidationError")
  /\ Cardinality(DOMAIN usersStorage) = 2
  /\ DOMAIN pharmaceuticalsStorage # {}

(* C8: a successful initiateRecall adds exactly one Active alert, exactly  *)
(* one RecallInitiated event (participant = initiator, location "System"), *)
(* exactly one RecallManagement reward of 25 points, and adds 25 to the    *)
(* initiator's points; an initiateRecall that returns an error has not     *)
(* inserted an alert.                                                      *)
C8_RecallEffects ==
  [][result'.op = "initiateRecall" =>
       IF result'.kind = "Ok"
         THEN LET recall == result'.value
                  initiator == recall.initiatedBy
              IN /\ AddsOne(recallAlertsStorage, recallAlertsStorage')
                 /\ TheNew(recallAlertsStorage, recallAlertsStorage') = recall
                 /\ recall.status = "Active"
                 /\ AddsOne(supplyChainEventsStorage,
                            supplyChainEventsStorage')
                 /\ LET event == TheNew(supplyChainEventsStorage,
                                        supplyChainEventsStorage')
                    IN /\ event.eventType = "RecallInitiated"
                       /\ event.participantId = initiator
                       /\ event.location = "System"
                       /\ event.pharmaceuticalId = recall.pharmaceuticalId
                 /\ AddsOne(rewardsStorage, rewardsStorage')
                 /\ LET reward == TheNew(rewardsStorage, rewardsStorage')
                    IN /\ reward.participantId = initiator
                       /\ reward.points = 25
                       /\ reward.rewardType = "RecallManagement"
                 /\ SamePointsExcept(usersStorage, usersStorage', initiator)
                 /\ usersStorage'[initiator] =
                      [usersStorage[initiator] EXCEPT
                         !.points = usersStorage[initiator].points + 25]
         ELSE recallAlertsStorage' = recallAlertsStorage]_vars

(* A recall succeeded and its initiator holds the points of its reward. *)
C8_Witness ==
  /\ result.op = "initiateRecall"
  /\ result.kind = "Ok"
  /\ result.value.status = "Active"
  /\ usersStorage[result.value.initiatedBy].points = 25
  /\ \E r \in DOMAIN rewardsStorage :
       rewardsStorage[r].rewardType = "RecallManagement"

(* C9 as stated: createPharmaceutical with the userId of an existing user  *)
(* who is not Admin returns Unauthorized whatever the other fields are,    *)
(* and inserts nothing.                                                    *)
C9_Original ==
  [][result'.op = "createPharmaceutical" =>
       \A payload \in PharmaceuticalPayload :
         (/\ payload.userId \in DOMAIN usersStorage
          /\ usersStorage[payload.userId].role # "Admin"
          /\ createPharmaceutical(payload))
         =>
         /\ result'.kind = "Unauthorized"
         /\ pharmaceuticalsStorage' = pharmaceuticalsStorage]_vars

(* C9 amended: createPharmaceutical with the userId of an existing user    *)
(* who is not Admin returns Unauthorized when name, manufacturer and       *)
(* batchNumber are all non-empty and InvalidPayload when one of them is    *)
(* empty; in both cases it inserts nothing.                                *)
C9_NonAdminRejected ==
  [][result'.op = "createPharmaceutical" =>
       \A payload \in PharmaceuticalPayload :
         (/\ payload.userId \in DOMAIN usersStorage
          /\ usersStorage[payload.userId].role # "Admin"
          /\ createPharmaceutical(payload))
         =>
         /\ result'.kind =
              IF payload.name # "" /\ payload.manufacturer # ""
                   /\ payload.batchNumber # ""
                THEN "Unauthorized"
                ELSE "InvalidPayload"
         /\ pharmaceuticalsStorage' = pharmaceuticalsStorage]_vars

(* A user who is not Admin exists and a registration was refused as        *)
(* Unauthorized.                                                           *)
C9_Witness ==
  /\ result = Err("createPharmaceutical", "Unauthorized")
  /\ \E u \in DOMAIN usersStorage : usersStorage[u].role # "Admin"

UsernameTaken(map, username) ==
  \E u \in DOMAIN map : map[u].username = username

(* C10: createUser with a non-empty username that no user holds returns a  *)
(* new user with points 0 and an id no existing user has; with a username  *)
(* that a user holds it returns ValidationError and inserts nothing; and   *)
(* in every reachable state no two users share a username.                 *)
C10_UniqueUsernames ==
  /\ [](\A u, v \in DOMAIN usersStorage :
          usersStorage[u].username = usersStorage[v].username => u = v)
  /\ [][result'.op = "createUser" =>
          \A payload \in UserPayload :
            (payload.username # "" /\ createUser(payload)) =>
              IF UsernameTaken(usersStorage, payload.username)
                THEN /\ result'.kind = "ValidationError"
                     /\ usersStorage' = usersStorage
                ELSE /\ result'.kind = "Ok"
                     /\ result'.value.username = payload.username
                     /\ result'.value.role = payload.role
                     /\ result'.value.points = 0
                     /\ result'.value.id \notin DOMAIN usersStorage
                     /\ AddsOne(usersStorage, usersStorage')
                     /\ TheNew(usersStorage, usersStorage')
                          = result'.value]_vars

(* Two users exist and a further createUser with a taken username was      *)
(* refused.                                                                *)
C10_Witness ==
  /\ result = Err("createUser", "ValidationError")
  /\ Cardinality(DOMAIN usersStorage) = 2

(* C11 as stated: createUser with an empty username returns                *)
(* ValidationError and inserts no user.                                    *)
C11_Original ==
  [][result'.op = "createUser" =>
       \A payload \in UserPayload :
         (payload.username = "" /\ createUser(payload)) =>
           /\ result'.kind = "ValidationError"
           /\ usersStorage' = usersStorage]_vars

(* C11: createUser with an empty username returns InvalidPayload, the kind *)
(* of a missing field and not the ValidationError of a taken username, and *)
(* inserts no user.                                                        *)
C11_EmptyUsernameRejected ==
  [][result'.op = "createUser" =>
       \A payload \in UserPayload :
         (payload.username = "" /\ createUser(payload)) =>
           /\ result'.kind = "InvalidPayload"
           /\ usersStorage' = usersStorage]_vars

(* A createUser with an empty username was refused while a user was        *)
(* already registered.                                                     *)
C11_Witness ==
  /\ result = Err("createUser", "InvalidPayload")
  /\ usersStorage # EmptyMap

(* C12: getPharmaceuticalHistory returns the events of a pharmaceutical in *)
(* the order of their insertion, whatever ids they were given.  In         *)
(* HistorySpec every event carries the time of its insertion and no two    *)
(* were inserted at the same time, so the dates of a returned history      *)
(* increase from each element to the next.                                 *)
C12_HistoryInInsertionOrder ==
  (result.op = "getPharmaceuticalHistory" /\ result.kind = "Ok") =>
    \A i, j \in 1..Len(result.value) :
      i < j => result.value[i].date < result.value[j].date

(* The record `new` is the record `old` up to its points. *)
SameButPoints(old, new) ==
  [new EXCEPT !.points = 0] = [old EXCEPT !.points = 0]

(* Every entry of the map `old` is an entry of `new`, with the same value. *)
Kept(old, new) ==
  /\ DOMAIN old \subseteq DOMAIN new
  /\ \A k \in DOMAIN old : new[k] = old[k]

(* C13: no step removes a record or changes one: every record of the seven *)
(* collections stays stored under its id with all its fields as they were, *)
(* except that the points of a user may change.                            *)
C13_AppendOnly ==
  [][stores' # stores =>
     /\ DOMAIN usersStorage \subseteq DOMAIN usersStorage'
     /\ \A u \in DOMAIN usersStorage :
          /\ SameButPoints(usersStorage[u], usersStorage'[u])
          /\ usersStorage'[u].id = u
     /\ Kept(pharmaceuticalsStorage, pharmaceuticalsStorage')
     /\ Kept(supplyChainEventsStorage, supplyChainEventsStorage')
     /\ Kept(rewardsStorage, rewardsStorage')
     /\ Kept(qualityChecksStorage, qualityChecksStorage')
     /\ Kept(recallAlertsStorage, recallAlertsStorage')
     /\ Kept(temperatureLogsStorage, temperatureLogsStorage')]_vars

(* A user, a pharmaceutical, an event, a reward and a recall alert are     *)
(* stored, the user has been credited after registration, and a later      *)
(* operation has run.                                                      *)
C13_Witness ==
  /\ result.op = "getUserById"
  /\ supplyChainEventsStorage # EmptyMap
  /\ pharmaceuticalsStorage # EmptyMap
  /\ rewardsStorage # EmptyMap
  /\ recallAlertsStorage # EmptyMap
  /\ \E u \in DOMAIN usersStorage : usersStorage[u].points > 0

(* The operations that credit points. *)
CreditingOps ==
  {"createSupplyChainEvent", "createReward", "submitQualityCheck",
   "initiateRecall"}

(* C14: no step lowers the points of a user; a step that changes the       *)
(* points of a user inserts exactly one reward, whose participant is that  *)
(* user and whose points are the increase; and a step of createUser,       *)
(* createPharmaceutical, logTemperature or a query changes no user's       *)
(* points.                                                                 *)
C14_PointsGrowByRewards ==
  [][usersStorage' # usersStorage =>
     /\ \A u \in DOMAIN usersStorage :
          /\ u \in DOMAIN usersStorage'
          /\ usersStorage'[u].points >= usersStorage[u].points
          /\ usersStorage'[u].points # usersStorage[u].points =>
               /\ AddsOne(rewardsStorage, rewardsStorage')
               /\ TheNew(rewardsStorage, rewardsStorage').participantId = u
               /\ TheNew(rewardsStorage, rewardsStorage').points =
                    usersStorage'[u].points - usersStorage[u].points
     /\ result'.op \notin CreditingOps =>
          \A u \in DOMAIN usersStorage :
            usersStorage'[u].points = usersStorage[u].points]_vars

(* A user credited for an event was then granted a reward of another size. *)
C14_Witness ==
  /\ result.op = "createReward"
  /\ result.kind = "Ok"
  /\ \E u \in DOMAIN usersStorage :
       usersStorage[u].points = SupplyChainEventPoints + result.value.points

RECURSIVE SumTemperature(_, _)
SumTemperature(map, keys) ==
  IF keys = {} THEN 0
  ELSE LET k == CHOOSE x \in keys : TRUE
       IN map[k].temperature + SumTemperature(map, keys \ {k})

RECURSIVE SumHumidity(_, _)
SumHumidity(map, keys) ==
  IF keys = {} THEN 0
  ELSE LET k == CHOOSE x \in keys : TRUE
       IN map[k].humidity + SumHumidity(map, keys \ {k})

(* The quality checks of the map that name the pharmaceutical. *)
ChecksOf(map, pharmaceuticalId) ==
  {q \in DOMAIN map : map[q].pharmaceuticalId = pharmaceuticalId}

(* C15: getQualityMetrics for a pharmaceutical with no quality check       *)
(* returns NotFound; otherwise, counting only the checks of that           *)
(* pharmaceutical, totalChecks is their number, passRate is the floor of   *)
(* 100 * passed / total and lies in 0..100, and averageTemperature and     *)
(* averageHumidity are the floors of the means of the readings.            *)
C15_QualityMetrics ==
  [][result'.op = "getQualityMetrics" =>
       \A pharmaceuticalId \in MetricPharmaceuticalIds \cup {""} :
         getQualityMetrics(pharmaceuticalId) =>
           LET ids == ChecksOf(qualityChecksStorage, pharmaceuticalId)
               total == Cardinality(ids)
               passed ==
                 Cardinality({q \in ids : qualityChecksStorage[q].passed})
           IN IF ids = {}
                THEN result'.kind = "NotFound"
                ELSE /\ result'.kind = "Ok"
                     /\ result'.value.totalChecks = total
                     /\ result'.value.passRate \in 0..100
                     /\ result'.value.passRate * total <= 100 * passed
                     /\ 100 * passed < (result'.value.passRate + 1) * total
                     /\ result'.value.averageTemperature =
                          SumTemperature(qualityChecksStorage, ids)
                            \div total
                     /\ result'.value.averageHumidity =
                          SumHumidity(qualityChecksStorage, ids)
                            \div total]_vars

(* The metrics of a pharmaceutical with two checks, one passed and one     *)
(* failed, at temperatures 5 and 7, while the other pharmaceutical has     *)
(* none: 2 checks, pass rate 50, average temperature 6.                    *)
C15_Witness ==
  /\ result.op = "getQualityMetrics"
  /\ result.kind = "Ok"
  /\ result.value.totalChecks = 2
  /\ result.value.passRate = 50
  /\ result.value.averageTemperature = 6
  /\ \E q \in DOMAIN qualityChecksStorage :
       qualityChecksStorage[q].temperature = 7

ListQueries ==
  {"getUsersByRole", "getPharmaceuticalHistory", "getAllPharmaceuticals",
   "getAllSupplyChainEvents", "getAllRewards", "getActiveRecalls",
   "getTemperatureExcursions"}

(* The elements of the sequence. *)
Range(seq) == {seq[i] : i \in 1..Len(seq)}

(* The records stored in the map under the keys. *)
Records(map, keys) == {map[k] : k \in keys}

(* The returned value is NotFound when `records` is empty, and otherwise a *)
(* success whose sequence holds every one of `records` once, and no other. *)
ReturnsExactly(returned, records) ==
  IF records = {}
    THEN returned.kind = "NotFound"
    ELSE /\ returned.kind = "Ok"
         /\ Len(returned.value) = Cardinality(records)
         /\ Range(returned.value) = records

(* C16: each of the seven list queries returns NotFound exactly when no    *)
(* record matches, never a success with an empty sequence, on success      *)
(* exactly the matching records, and leaves every collection unchanged.    *)
C16_ListQueries ==
  [][result'.op \in ListQueries =>
       /\ stores' = stores
       /\ result'.kind = "Ok" => Len(result'.value) > 0
       /\ result'.op = "getUsersByRole" =>
          \A role \in UserRole :
            getUsersByRole(role) =>
              ReturnsExactly(result',
                {usersStorage[u] : u \in
                   {v \in DOMAIN usersStorage : usersStorage[v].role = role}})
       /\ result'.op \in {"getPharmaceuticalHistory",
                          "getTemperatureExcursions"} =>
          \A pharmaceuticalId \in PharmaceuticalIdInputs :
            /\ getPharmaceuticalHistory(pharmaceuticalId) =>
                 ReturnsExactly(result',
                   Records(supplyChainEventsStorage,
                     {e \in DOMAIN supplyChainEventsStorage :
                        supplyChainEventsStorage[e].pharmaceuticalId
                          = pharmaceuticalId}))
            /\ getTemperatureExcursions(pharmaceuticalId) =>
                 ReturnsExactly(result',
                   Records(temperatureLogsStorage,
                     {t \in DOMAIN temperatureLogsStorage :
                        /\ temperatureLogsStorage[t].pharmaceuticalId
                             = pharmaceuticalId
                        /\ temperatureLogsStorage[t].isExcursion}))
       /\ (result'.op = "getAllPharmaceuticals" /\ getAllPharmaceuticals) =>
            ReturnsExactly(result',
              Records(pharmaceuticalsStorage, DOMAIN pharmaceuticalsStorage))
       /\ (result'.op = "getAllSupplyChainEvents"
             /\ getAllSupplyChainEvents) =>
            ReturnsExactly(result',
              Records(supplyChainEventsStorage,
                      DOMAIN supplyChainEventsStorage))
       /\ (result'.op = "getAllRewards" /\ getAllRewards) =>
            ReturnsExactly(result',
              Records(rewardsStorage, DOMAIN rewardsStorage))
       /\ (result'.op = "getActiveRecalls" /\ getActiveRecalls) =>
            ReturnsExactly(result',
              Records(recallAlertsStorage,
                {a \in DOMAIN recallAlertsStorage :
                   recallAlertsStorage[a].status = "Active"}))]_vars

(* getUsersByRole returned one of two registered users, and another list   *)
(* query of the same state has nothing to return.                          *)
C16_Witness ==
  /\ result.op = "getUsersByRole"
  /\ result.kind = "Ok"
  /\ Len(result.value) = 1
  /\ Cardinality(DOMAIN usersStorage) = 2
  /\ rewardsStorage = EmptyMap

(* Every pharmaceutical is owned by an existing user whose role is Admin. *)
OwnersAreAdmins ==
  \A p \in DOMAIN pharmaceuticalsStorage :
    /\ pharmaceuticalsStorage[p].userId \in DOMAIN usersStorage
    /\ usersStorage[pharmaceuticalsStorage[p].userId].role = "Admin"

(* A successful createPharmaceutical step stores one record whose fields   *)
(* are the payload's.                                                      *)
StoresPayload(payload) ==
  result'.kind = "Ok" =>
    /\ AddsOne(pharmaceuticalsStorage, pharmaceuticalsStorage')
    /\ LET stored == TheNew(pharmaceuticalsStorage, pharmaceuticalsStorage')
       IN /\ stored.name = payload.name
          /\ stored.manufacturer = payload.manufacturer
          /\ stored.batchNumber = payload.batchNumber
          /\ stored.expiryDate = payload.expiryDate
          /\ stored.userId = payload.userId

(* C17 as stated: every pharmaceutical is owned by an existing Admin;      *)
(* createPharmaceutical with a userId that does not resolve returns        *)
(* NotFound; and on success the stored fields are the payload's.           *)
C17_Original ==
  /\ []OwnersAreAdmins
  /\ [][result'.op = "createPharmaceutical" =>
          \A payload \in PharmaceuticalPayload :
            createPharmaceutical(payload) =>
              /\ payload.userId \notin DOMAIN usersStorage =>
                   result'.kind = "NotFound"
              /\ StoresPayload(payload)]_vars

(* C17: every pharmaceutical is owned by an existing Admin;                *)
(* createPharmaceutical with a userId that does not resolve inserts        *)
(* nothing and returns NotFound when name, manufacturer and batchNumber    *)
(* are non-empty, InvalidPayload when one of them is empty; and on success *)
(* the stored name, manufacturer, batchNumber, expiryDate and userId are   *)
(* the payload's.                                                          *)
C17_OwnerIsAdmin ==
  /\ []OwnersAreAdmins
  /\ [][result'.op = "createPharmaceutical" =>
          \A payload \in PharmaceuticalPayload :
            createPharmaceutical(payload) =>
              /\ payload.userId \notin DOMAIN usersStorage =>
                   /\ result'.kind =
                        IF /\ payload.name # ""
                           /\ payload.manufacturer # ""
                           /\ payload.batchNumber # ""
                          THEN "NotFound"
                          ELSE "InvalidPayload"
                   /\ pharmaceuticalsStorage' = pharmaceuticalsStorage
              /\ StoresPayload(payload)]_vars

(* A pharmaceutical is registered, a user who is not Admin exists, and a   *)
(* complete registration under an unknown userId was refused.              *)
C17_Witness ==
  /\ result = Err("createPharmaceutical", "NotFound")
  /\ pharmaceuticalsStorage # EmptyMap
  /\ \E u \in DOMAIN usersStorage : usersStorage[u].role = "Viewer"

(* C18: createReward returns InvalidPayload when participantId is empty or *)
(* points is 0 and, past that test, NotFound when participantId does not   *)
(* resolve, writing nothing in both cases; otherwise it inserts exactly    *)
(* one reward with the payload's participant, points and type and raises   *)
(* that participant's points by exactly payload.points; and in every       *)
(* reachable state every reward has points above 0 and names an existing   *)
(* user.                                                                   *)
C18_GrantReward ==
  /\ [](\A r \in DOMAIN rewardsStorage :
          /\ rewardsStorage[r].points > 0
          /\ rewardsStorage[r].participantId \in DOMAIN usersStorage)
  /\ [][result'.op = "createReward" =>
          \A payload \in RewardPayload :
            createReward(payload) =>
              IF payload.participantId = "" \/ payload.points = 0
                THEN /\ result'.kind = "InvalidPayload"
                     /\ stores' = stores
              ELSE IF payload.participantId \notin DOMAIN usersStorage
                THEN /\ result'.kind = "NotFound"
                     /\ stores' = stores
              ELSE /\ result'.kind = "Ok"
                   /\ AddsOne(rewardsStorage, rewardsStorage')
                   /\ LET reward == TheNew(rewardsStorage, rewardsStorage')
                      IN /\ reward.participantId = payload.participantId
                         /\ reward.points = payload.points
                         /\ reward.rewardType = payload.rewardType
                         /\ reward = result'.value
                   /\ SamePointsExcept(usersStorage, usersStorage',
                                       payload.participantId)
                   /\ usersStorage'[payload.participantId].points =
                        usersStorage[payload.participantId].points
                          + payload.points]_vars

(* A reward was granted to a user, and a later grant to an id that names   *)
(* no user was refused.                                                    *)
C18_Witness ==
  /\ result = Err("createReward", "NotFound")
  /\ \E r \in DOMAIN rewardsStorage : rewardsStorage[r].rewardType = "Other"

(* C19: a recall alert, once stored by a successful initiateRecall, stays  *)
(* stored unchanged in every later state, with status "Active", a          *)
(* severity among Low, Medium, High and Critical, and a pharmaceuticalId   *)
(* and an initiatedBy that name existing records; and every                *)
(* getActiveRecalls from then on succeeds and returns it.                  *)
C19_RecallsStayActive ==
  /\ [](\A a \in DOMAIN recallAlertsStorage :
          LET alert == recallAlertsStorage[a]
              active == GetActiveRecalls(recallAlertsStorage)
          IN /\ alert.id = a
             /\ alert.status = "Active"
             /\ alert.severity \in {"Low", "Medium", "High", "Critical"}
             /\ alert.pharmaceuticalId \in DOMAIN pharmaceuticalsStorage
             /\ alert.initiatedBy \in DOMAIN usersStorage
             /\ active.kind = "Ok"
             /\ alert \in Range(active.value))
  /\ [][/\ Kept(recallAlertsStorage, recallAlertsStorage')
        /\ (result'.op = "initiateRecall" /\ result'.kind = "Ok") =>
             /\ result'.value.id \in DOMAIN recallAlertsStorage'
             /\ recallAlertsStorage'[result'.value.id] = result'.value
        /\ (result'.op = "getActiveRecalls"
              /\ recallAlertsStorage # EmptyMap) =>
             /\ result'.kind = "Ok"
             /\ \A a \in DOMAIN recallAlertsStorage :
                  recallAlertsStorage[a] \in Range(result'.value)]_vars

(* A recall was initiated and a later getActiveRecalls returned its alert. *)
C19_Witness ==
  /\ result.op = "getActiveRecalls"
  /\ result.kind = "Ok"
  /\ \E a \in DOMAIN recallAlertsStorage :
       /\ recallAlertsStorage[a] \in Range(result.value)
       /\ recallAlertsStorage[a].severity = "High"

(* C20: in every reachable state every stored temperature log has          *)
(* isExcursion true exactly when its temperature is below 2 or above 25,   *)
(* so that readings of 2 and 25 are not excursions and readings of 0, 1    *)
(* and 26 are, and names an existing pharmaceutical.                       *)
C20_ExcursionBand ==
  \A t \in DOMAIN temperatureLogsStorage :
    LET log == temperatureLogsStorage[t]
    IN /\ log.isExcursion = (log.temperature < 2 \/ log.temperature > 25)
       /\ log.temperature \in {2, 25} => ~log.isExcursion
       /\ log.temperature \in {0, 1, 26} => log.isExcursion
       /\ log.pharmaceuticalId \in DOMAIN pharmaceuticalsStorage

(* A reading at the upper limit of the band is stored as no excursion. *)
C20_Witness ==
  \E t \in DOMAIN temperatureLogsStorage :
    /\ temperatureLogsStorage[t].temperature = 25
    /\ ~temperatureLogsStorage[t].isExcursion
    /\ result.op = "logTemperature"

(* The events of the ledger `map` of the given type for the pharmaceutical. *)
EventsOfType(map, pharmaceuticalId, eventType) ==
  {e \in DOMAIN map : /\ map[e].pharmaceuticalId = pharmaceuticalId
                      /\ map[e].eventType = eventType}

(* The records of `map` that name the pharmaceutical. *)
RecordsFor(map, pharmaceuticalId) ==
  {k \in DOMAIN map : map[k].pharmaceuticalId = pharmaceuticalId}

(* The temperature logs of `map` that are excursions. *)
ExcursionLogs(map) == {t \in DOMAIN map : map[t].isExcursion}

(* The number of records that carry a derived event. *)
DerivedCount(checks, logs, recalls) ==
  Cardinality(DOMAIN checks) + Cardinality(ExcursionLogs(logs))
  + Cardinality(DOMAIN recalls)

(* C21: in every reachable state, for every pharmaceutical, the            *)
(* QualityControl events are at least as many as its quality checks, the   *)
(* TemperatureExcursion events at least as many as its excursion logs and  *)
(* the RecallInitiated events at least as many as its recall alerts; and   *)
(* the ledger holds one event for each successful createSupplyChainEvent,  *)
(* each quality check, each excursion log and each recall alert: it is     *)
(* empty when all of these are none, and every step adds as many events as *)
(* it adds checks, excursion logs and alerts, and one more exactly when it *)
(* is a successful createSupplyChainEvent.                                 *)
C21_DerivedEventCounts ==
  /\ [](/\ \A i \in 1..Len(PharmaceuticalIdSeq) :
             LET p == PharmaceuticalIdSeq[i]
             IN /\ Cardinality(EventsOfType(supplyChainEventsStorage, p,
                                            "QualityControl"))
                     >= Cardinality(RecordsFor(qualityChecksStorage, p))
                /\ Cardinality(EventsOfType(supplyChainEventsStorage, p,
                                            "TemperatureExcursion"))
                     >= Cardinality(
                          RecordsFor(temperatureLogsStorage, p)
                            \cap ExcursionLogs(temperatureLogsStorage))
                /\ Cardinality(EventsOfType(supplyChainEventsStorage, p,
                                            "RecallInitiated"))
                     >= Cardinality(RecordsFor(recallAlertsStorage, p))
        /\ Cardinality(DOMAIN supplyChainEventsStorage)
             >= DerivedCount(qualityChecksStorage, temperatureLogsStorage,
                             recallAlertsStorage)
        /\ result.op = "init" => supplyChainEventsStorage = EmptyMap)
  /\ [][IF /\ supplyChainEventsStorage' = supplyChainEventsStorage
           /\ qualityChecksStorage' = qualityChecksStorage
           /\ temperatureLogsStorage' = temperatureLogsStorage
           /\ recallAlertsStorage' = recallAlertsStorage
          THEN ~(/\ result'.op = "createSupplyChainEvent"
                 /\ result'.kind = "Ok")
          ELSE Cardinality(DOMAIN supplyChainEventsStorage')
                 - Cardinality(DOMAIN supplyChainEventsStorage)
               = DerivedCount(qualityChecksStorage', temperatureLogsStorage',
                              recallAlertsStorage')
                 - DerivedCount(qualityChecksStorage, temperatureLogsStorage,
                                recallAlertsStorage)
                 + IF /\ result'.op = "createSupplyChainEvent"
                      /\ result'.kind = "Ok"
                     THEN 1
                     ELSE 0]_vars

(* A caller recorded a QualityControl event for a pharmaceutical that has  *)
(* no quality check: the ledger holds more events of the type than checks, *)
(* and its one event is that of the one successful call.                   *)
C21_Witness ==
  /\ result.op = "createSupplyChainEvent"
  /\ result.kind = "Ok"
  /\ result.value.eventType = "QualityControl"
  /\ qualityChecksStorage = EmptyMap
  /\ Cardinality(EventsOfType(supplyChainEventsStorage,
                              result.value.pharmaceuticalId,
                              "QualityControl")) = 1
====
